---- MODULE Spec2Model ----
(***************************************************************************)
(* Model of pytorch_generative/models/vae.py and vq_vae_2.py.              *)
(*                                                                         *)
(* Three groups of state:                                                  *)
(*   vae, fwd, sampled : a VAE object, the outcome of its last forward()   *)
(*                       call and of its last sample() call;               *)
(*   vqvae2            : the outcome of the last VQVAE2(...) construction; *)
(*   run               : the outcome of the last reproduce(...) call of    *)
(*                       either module.                                    *)
(* Python values are records with a "kind" field.  A raised exception is   *)
(* recorded in an "error" field; the statements after the raising one have *)
(* no effect.                                                              *)
(***************************************************************************)
EXTENDS Integers, Sequences, FiniteSets, TLC

VARIABLES vae, fwd, sampled, vqvae2, run

vars == <<vae, fwd, sampled, vqvae2, run>>

\* ---- bounds ----
MaxLatent == 2      \* latent_channels in 1..MaxLatent
MaxInSize == 9      \* height of the input of forward in 1..MaxInSize
MaxSamples == 3     \* n_samples in 1..MaxSamples
MaxArg == 2         \* every VQVAE2 constructor argument in 1..MaxArg
MaxEpochs == 4      \* n_epochs in 0..MaxEpochs
MaxBatches == 2     \* a debug loader has 0..MaxBatches batches
MaxBatchSize == 3   \* batch_size in 1..MaxBatchSize

\* ---- Python values ----
None == [kind |-> "None"]
NoError == [kind |-> "NoError"]
NameError(name, line) == [kind |-> "NameError", name |-> name, line |-> line]
AttributeError(name, line) == [kind |-> "AttributeError", name |-> name, line |-> line]
IndexError(line) == [kind |-> "IndexError", line |-> line]

\* bool(v): None is falsy; an object with __len__ (a DataLoader) is falsy
\* exactly when its length is 0; every other object is truthy.
Truthy(v) ==
  CASE v.kind = "None" -> FALSE
    [] v.kind = "debug" -> v.len > 0
    [] OTHER -> TRUE

\* Python's "a or b": a when a is truthy, else b.
Or(a, b) == IF Truthy(a) THEN a ELSE b

\* Names exported by pytorch_generative.models.vaes.
VaesExports == {"Encoder", "Decoder", "Quantizer"}

\* Attributes of the module objects the constructors refer to.
ModuleAttrs(m) ==
  CASE m = "vaes" -> VaesExports
    [] m = "nn" -> {"Module", "Conv2d"}
    [] OTHER -> {}

\* ---- vae.py : class VAE ----
VAEGlobals == {"torch", "nn", "vaes", "VAE", "reproduce"}

VAEStride == 4

VAEConstruct(in_channels, out_channels, latent_channels, hidden_channels, residual_channels) ==
  [kind |-> "VAE",
   latent_channels |-> latent_channels,
   stride |-> VAEStride,
   encoder |-> [cls |-> "Encoder", in_channels |-> in_channels,
                out_channels |-> 2 * latent_channels,
                hidden_channels |-> hidden_channels,
                residual_channels |-> residual_channels,
                n_residual_blocks |-> 2, stride |-> VAEStride],
   decoder |-> [cls |-> "Decoder", in_channels |-> latent_channels,
                out_channels |-> out_channels,
                hidden_channels |-> hidden_channels,
                residual_channels |-> residual_channels,
                n_residual_blocks |-> 2, stride |-> VAEStride],
   has_in_size |-> FALSE,
   in_size |-> 0]

\* self._in_size // 2 ** (self._stride // 2)   (** binds tighter than //)
LatentSize_stride(in_size, stride) == in_size \div (2 ^ stride)
LatentSize(in_size, stride) == in_size \div (2 ^ (stride \div 2))

\* sample(n_samples) on model m: the latents handed to the decoder.
SampleResult(m, n_samples) ==
  IF ~m.has_in_size
    THEN [kind |-> "sample", model |-> m, n_samples |-> n_samples,
          shape |-> <<>>, error |-> AttributeError("_in_size", 67)]
    ELSE LET latent_size == LatentSize(m.in_size, m.stride)
         IN [kind |-> "sample", model |-> m, n_samples |-> n_samples,
             shape |-> <<n_samples, m.latent_channels, latent_size, latent_size>>,
             error |-> NoError]

\* forward(x) on model m, x given by its shape: x.shape[2] is saved before
\* anything else is computed; a tensor of rank < 3 has no shape[2].
ForwardModel(m, xshape) ==
  IF Len(xshape) < 3 THEN m
  ELSE [m EXCEPT !.has_in_size = TRUE, !.in_size = xshape[3]]

ForwardResult(m, xshape) ==
  [kind |-> "forward", xshape |-> xshape,
   error |-> IF Len(xshape) < 3 THEN IndexError(53) ELSE NoError]

\* ---- vq_vae_2.py : class VQVAE2 ----
\* Names bound at module level of vq_vae_2.py (imports, class, function).
VQGlobals == {"torch", "nn", "vaes", "VQVAE2", "reproduce"}

\* The assignments of VQVAE2.__init__ in order: the attribute assigned, the
\* dotted name called, its keyword arguments, and the line of the name.
VQInitStmts(in_channels, out_channels, hidden_channels, n_residual_blocks, residual_channels, n_embeddings, embedding_dim) ==
  << [attr |-> "_encoder_b", ref |-> <<"vaes", "Encoder">>, line |-> 43,
      kwargs |-> [in_channels |-> in_channels,
                  out_channels |-> hidden_channels,
                  hidden_channels |-> hidden_channels,
                  n_residual_blocks |-> n_residual_blocks,
                  residual_channels |-> residual_channels,
                  stride |-> 2]],
     [attr |-> "_encoder_t", ref |-> <<"vaes", "Encoder">>, line |-> 49,
      kwargs |-> [in_channels |-> hidden_channels,
                  out_channels |-> hidden_channels,
                  hidden_channels |-> hidden_channels,
                  n_residual_blocks |-> n_residual_blocks,
                  residual_channels |-> residual_channels,
                  stride |-> 2]],
     [attr |-> "_quantizer_t", ref |-> <<"vaes", "Quantizer">>, line |-> 55,
      kwargs |-> [in_channels |-> hidden_channels,
                  n_embeddings |-> n_embeddings,
                  embedding_dim |-> embedding_dim]],
     [attr |-> "_quantizer_b", ref |-> <<"Quantizer">>, line |-> 58,
      kwargs |-> [in_channels |-> hidden_channels,
                  n_embeddings |-> n_embeddings,
                  embedding_dim |-> embedding_dim]],
     [attr |-> "_decoder_t", ref |-> <<"vaes", "Decoder">>, line |-> 61,
      kwargs |-> [in_channels |-> embedding_dim,
                  out_channels |-> hidden_channels,
                  hidden_channels |-> hidden_channels,
                  n_residual_blocks |-> n_residual_blocks,
                  residual_channels |-> residual_channels,
                  stride |-> 2]],
     [attr |-> "_conv", ref |-> <<"nn", "Conv2d">>, line |-> 67,
      kwargs |-> [in_channels |-> in_channels,
                  out_channels |-> embedding_dim,
                  kernel_size |-> 1]],
     [attr |-> "_decoder_b", ref |-> <<"vaes", "Decoder">>, line |-> 69,
      kwargs |-> [in_channels |-> 2 * embedding_dim,
                  out_channels |-> out_channels,
                  hidden_channels |-> hidden_channels,
                  n_residual_blocks |-> n_residual_blocks,
                  residual_channels |-> residual_channels,
                  stride |-> 2]] >>

\* Evaluating a dotted name in a scope: the first name is looked up in the
\* scope (NameError when unbound), an attribute in the module it names.
RefError(ref, scope, line) ==
  IF ref[1] \notin scope THEN NameError(ref[1], line)
  ELSE IF Len(ref) > 1 /\ ref[2] \notin ModuleAttrs(ref[1])
    THEN AttributeError(ref[2], line)
  ELSE NoError

\* Runs the assignments in order; the first one that raises ends the run and
\* leaves the attributes assigned so far.
RECURSIVE RunStmts(_, _, _)
RunStmts(stmts, scope, built) ==
  IF stmts = <<>> THEN [attrs |-> built, error |-> NoError]
  ELSE LET s == Head(stmts)
           e == RefError(s.ref, scope, s.line)
       IN IF e # NoError THEN [attrs |-> built, error |-> e]
          ELSE RunStmts(Tail(stmts), scope,
                        Append(built, [attr |-> s.attr,
                                       cls |-> s.ref[Len(s.ref)],
                                       kwargs |-> s.kwargs]))

VQVAE2Construct(in_channels, out_channels, hidden_channels, n_residual_blocks, residual_channels, n_embeddings, embedding_dim) ==
  LET r == RunStmts(VQInitStmts(in_channels, out_channels, hidden_channels,
                                n_residual_blocks, residual_channels,
                                n_embeddings, embedding_dim),
                    VQGlobals, <<>>)
  IN [kind |-> "VQVAE2",
      args |-> <<in_channels, out_channels, hidden_channels, n_residual_blocks,
                 residual_channels, n_embeddings, embedding_dim>>,
      attrs |-> r.attrs, error |-> r.error]

\* The components of class cls an object holds.
Components(obj, cls) == {i \in 1..Len(obj.attrs) : obj.attrs[i].cls = cls}

\* ---- the reproduce functions ----
DebugLoader(n) == [kind |-> "debug", len |-> n]

DefaultLoader(dataset, train, batch_size, shuffle) ==
  [kind |-> "default", dataset |-> dataset, train |-> train,
   batch_size |-> batch_size, shuffle |-> shuffle, num_workers |-> 8]

\* Names bound in the body of vae.reproduce when its last statement runs.
VAEReproduceLocals ==
  {"n_epochs", "batch_size", "log_dir", "device", "debug_loader", "optim", "F",
   "lr_scheduler", "data", "datasets", "transforms", "trainer", "models",
   "transform", "train_loader", "test_loader", "model", "optimizer",
   "scheduler", "loss_fn", "sample_fn", "model_trainer"}

\* Names bound in the body of vq_vae_2.reproduce when its last statement runs.
VQReproduceLocals ==
  {"n_epochs", "batch_size", "log_dir", "device", "debug_loader", "optim", "F",
   "lr_scheduler", "data", "datasets", "transforms", "trainer", "models",
   "transform", "train_loader", "test_loader", "model", "optimizer",
   "scheduler", "loss_fn", "model_trainer"}

RunRecord(module, n_epochs, batch_size, debug_loader, train_loader, test_loader, trainer, epochs, error) ==
  [kind |-> "run", module |-> module, n_epochs |-> n_epochs,
   batch_size |-> batch_size, debug_loader |-> debug_loader,
   train_loader |-> train_loader, test_loader |-> test_loader,
   trainer |-> trainer, epochs |-> epochs, error |-> error]

\* vae.reproduce
VAEReproduce(n_epochs, batch_size, debug_loader) ==
  LET train_loader == Or(debug_loader, DefaultLoader("MNIST", TRUE, batch_size, TRUE))
      test_loader == Or(debug_loader, DefaultLoader("MNIST", FALSE, batch_size, FALSE))
      model == VAEConstruct(1, 1, 2, 128, 32)
      model_trainer == [kind |-> "Trainer", model |-> model,
                        train_loader |-> train_loader,
                        eval_loader |-> test_loader, sample_epochs |-> 5]
      e == RefError(<<"n_epochs">>, VAEReproduceLocals \cup VAEGlobals, 149)
  IN IF e # NoError
       THEN RunRecord("vae", n_epochs, batch_size, debug_loader, train_loader,
                      test_loader, model_trainer, None, e)
       ELSE RunRecord("vae", n_epochs, batch_size, debug_loader, train_loader,
                      test_loader, model_trainer,
                      [kind |-> "epochs", n |-> n_epochs], NoError)

\* vq_vae_2.reproduce
VQReproduce(n_epochs, batch_size, debug_loader) ==
  LET train_loader == Or(debug_loader, DefaultLoader("CIFAR10", TRUE, batch_size, TRUE))
      test_loader == Or(debug_loader, DefaultLoader("CIFAR10", FALSE, batch_size, FALSE))
      model == VQVAE2Construct(3, 3, 128, 2, 64, 512, 64)
      model_trainer == [kind |-> "Trainer", model |-> model,
                        train_loader |-> train_loader,
                        eval_loader |-> test_loader]
      e == RefError(<<"N_EPOCHS">>, VQReproduceLocals \cup VQGlobals, 159)
  IN IF model.error # NoError
       THEN RunRecord("vq_vae_2", n_epochs, batch_size, debug_loader,
                      train_loader, test_loader, None, None, model.error)
     ELSE IF e # NoError
       THEN RunRecord("vq_vae_2", n_epochs, batch_size, debug_loader,
                      train_loader, test_loader, model_trainer, None, e)
     ELSE RunRecord("vq_vae_2", n_epochs, batch_size, debug_loader,
                    train_loader, test_loader, model_trainer,
                    [kind |-> "epochs", n |-> n_epochs], NoError)

\* ---- inputs ----
XShapes == {<<1, 1>>} \cup {<<1, 1, h, h>> : h \in 1..MaxInSize}
DebugLoaders == {None} \cup {DebugLoader(n) : n \in 0..MaxBatches}

\* ---- state machine ----
Init ==
  /\ vae = VAEConstruct(1, 1, 2, 128, 32)
  /\ fwd = None
  /\ sampled = None
  /\ vqvae2 = None
  /\ run = None

\* VAE(latent_channels=c)
VAEInit ==
  \E c \in 1..MaxLatent :
    /\ vae' = VAEConstruct(1, 1, c, 128, 32)
    /\ UNCHANGED <<fwd, sampled, vqvae2, run>>

\* vae.forward(x)
Forward ==
  \E xs \in XShapes :
    /\ vae' = ForwardModel(vae, xs)
    /\ fwd' = ForwardResult(vae, xs)
    /\ UNCHANGED <<sampled, vqvae2, run>>

\* vae.sample(n_samples)
Sample ==
  \E n \in 1..MaxSamples :
    /\ sampled' = SampleResult(vae, n)
    /\ UNCHANGED <<vae, fwd, vqvae2, run>>

\* VQVAE2(...)
VQVAE2Init ==
  \E ic \in 1..MaxArg, oc \in 1..MaxArg, hc \in 1..MaxArg, nb \in 1..MaxArg,
     rc \in 1..MaxArg, ne \in 1..MaxArg, ed \in 1..MaxArg :
    /\ vqvae2' = VQVAE2Construct(ic, oc, hc, nb, rc, ne, ed)
    /\ UNCHANGED <<vae, fwd, sampled, run>>

\* vae.reproduce(n_epochs, batch_size, debug_loader=...)
ReproduceVAE ==
  \E n \in 0..MaxEpochs, b \in 1..MaxBatchSize, d \in DebugLoaders :
    /\ run' = VAEReproduce(n, b, d)
    /\ UNCHANGED <<vae, fwd, sampled, vqvae2>>

\* vq_vae_2.reproduce(n_epochs, batch_size, debug_loader=...)
ReproduceVQ ==
  \E n \in 0..MaxEpochs, b \in 1..MaxBatchSize, d \in DebugLoaders :
    /\ run' = VQReproduce(n, b, d)
    /\ UNCHANGED <<vae, fwd, sampled, vqvae2>>

NextVAE == VAEInit \/ Forward \/ Sample
NextVQ == VQVAE2Init
NextReproduce == ReproduceVAE \/ ReproduceVQ

SpecVAE == Init /\ [][NextVAE]_vars
SpecVQ == Init /\ [][NextVQ]_vars
SpecReproduce == Init /\ [][NextReproduce]_vars

\* ---- claims ----

\* C1: a sample(n_samples) call with n_samples >= 1 on a model whose forward
\* has saved an input size raises nothing and hands the decoder latents of
\* shape (n_samples, latent_channels, in_size // 4, in_size // 4); the stride
\* of the model is 4.
C1_SampleShape ==
  (sampled.kind = "sample" /\ sampled.model.has_in_size /\ sampled.n_samples >= 1)
    => /\ sampled.error = NoError
       /\ sampled.model.stride = 4
       /\ sampled.shape = <<sampled.n_samples, sampled.model.latent_channels,
                            sampled.model.in_size \div 4,
                            sampled.model.in_size \div 4>>

C1_Witness ==
  /\ sampled.kind = "sample"
  /\ sampled.model.has_in_size
  /\ sampled.model.in_size = 9
  /\ sampled.n_samples = 3
  /\ sampled.shape = <<3, sampled.model.latent_channels, 2, 2>>

\* C2: in both reproduce functions, for every debug_loader other than None
\* (an empty, falsy loader included) train_loader and test_loader are that
\* debug_loader, and so are the loaders of a Trainer that gets built; only for
\* debug_loader None are the default loaders built.
C2_DebugLoaderReplaces ==
  run.kind = "run" =>
    /\ (run.debug_loader # None) =>
         /\ run.train_loader = run.debug_loader
         /\ run.test_loader = run.debug_loader
         /\ (run.trainer # None) =>
              /\ run.trainer.train_loader = run.debug_loader
              /\ run.trainer.eval_loader = run.debug_loader
    /\ (run.debug_loader = None) =>
         /\ run.train_loader.kind = "default"
         /\ run.test_loader.kind = "default"

\* C3: in both reproduce functions, for every n_epochs the call of
\* interleaved_train_and_eval is reached without an error and is passed
\* exactly n_epochs.
C3_EpochsPassed ==
  run.kind = "run" =>
    /\ run.error = NoError
    /\ run.epochs = [kind |-> "epochs", n |-> run.n_epochs]

\* C4: for every choice of positive constructor arguments VQVAE2.__init__
\* completes without error and the model holds exactly two encoders, two
\* quantizers built with the same in_channels = hidden_channels, n_embeddings
\* and embedding_dim, and two decoders.
C4_DepthTwoHierarchy ==
  vqvae2.kind = "VQVAE2" =>
    /\ vqvae2.error = NoError
    /\ Cardinality(Components(vqvae2, "Encoder")) = 2
    /\ Cardinality(Components(vqvae2, "Quantizer")) = 2
    /\ Cardinality(Components(vqvae2, "Decoder")) = 2
    /\ \A i, j \in Components(vqvae2, "Quantizer") :
         /\ vqvae2.attrs[i].kwargs = vqvae2.attrs[j].kwargs
         /\ vqvae2.attrs[i].kwargs.in_channels = vqvae2.args[3]
         /\ vqvae2.attrs[i].kwargs.n_embeddings = vqvae2.args[6]
         /\ vqvae2.attrs[i].kwargs.embedding_dim = vqvae2.args[7]

====
